---- MODULE Spec2Model ----
(***************************************************************************)
(* Exam-Prep: the quiz-session runner (components/PracticeSession.tsx)     *)
(* together with the App-level session builder, completion and exit        *)
(* handlers (App.tsx) and the AI collaborator calls the runner and the     *)
(* builder wait for (services/geminiService.ts).                           *)
(*                                                                         *)
(* One action per event handler.  An action covers the handler, the        *)
(* re-render it causes and the effects of that render (React flushes the   *)
(* passive effects of a render before it handles the next event).          *)
(*                                                                         *)
(* Spec follows the runner in full over a fixed bank.  SpecBank starts     *)
(* from the empty bank and adds document ingestion and question deletion;  *)
(* the hint and explain buttons and the per-question clock are left to     *)
(* Spec.  SpecBuild follows the session builder alone from stored states   *)
(* with banks of up to MaxBuildBank questions.  SpecLive is Spec with the   *)
(* interval's callbacks taken fairly.  SpecUpload follows a batch of       *)
(* dropped files through its awaits, SpecSnapshot the session snapshot of  *)
(* StorageService, and SpecTrend the Dashboard's accuracy trend over the   *)
(* stored attempt histories.                                               *)
(***************************************************************************)
EXTENDS Integers, Sequences, FiniteSets, TLC

(* ------------------------------ bounds --------------------------------- *)
\* number of questions in the bank
BankSize == 2
\* options.length of every bank question
NumOptions == 2
\* a session is built only while the attempt history is shorter than this
MaxHistory == 1
\* the countdown is followed second by second over its last TailSeconds
TailSeconds == 1
\* seconds followed on one question
MaxElapsed == 1
\* longest identifier list the AI curation call returns
MaxAiIds == 2

\* ingestion stops when the bank holds this many questions
MaxBankQuestions == 2
\* identifiers DocumentUpload hands out
MaxIds == 2
\* with ingestion and deletion a session is built only while the attempt
\* history is shorter than this
MaxBankHistory == 2
\* items in one extraction response
MaxItems == 1
\* ingestion stops when the document log holds this many entries
MaxDocuments == 2
\* files in one dropped batch
MaxFiles == 2

\* arrays up to this length are shuffled into every order, longer ones into
\* this many rotations of the array and of its reverse
MaxShuffle == 3
\* largest bank a session is built from when only the builder is followed
MaxBuildBank == 12
\* previously-missed questions of such a bank: at most this many, or all but
\* at most one
MaxMissed == 3

\* longest stored attempt history the accuracy trend is first drawn for
MaxTrendAttempts == 9

\* the clock is followed over this many half days
MaxHalfDays == 3
\* and over this many single milliseconds past a half day
MaxOddMs == 1

(* --------------------------- program constants ------------------------- *)
\* App.tsx:110  selectedQuestions.slice(0, 10)
PageSize == 10
\* App.tsx:101  timeLimit = 120 * 60
ExamTimeLimit == 120 * 60
\* App.tsx:153  customConfig.duration * 60
SecondsPerMinute == 60
\* App.tsx:595  chunkSize = 5
chunkSize == 5
\* storageService.ts:115  hoursSinceSave > 24
MaxAgeHours == 24
\* storageService.ts:114  1000 * 60 * 60
MsPerHour == 1000 * 60 * 60
\* selectedOption: number | null (useState(null))
null == -1
\* timeLeft: number | undefined (session.timeLimit may be absent)
undefined == -1
\* an identifier the bank does not hold (the AI may return anything)
UnknownId == 0

Subjects == {"Polity", "Economy"}
\* Subject.GENERAL_AWARENESS, the stand-in for an unknown subject
GENERAL_AWARENESS == "General Awareness"
Modes == {"STANDARD", "ADAPTIVE", "EXAM", "CUSTOM"}
TutorTypes == {"EXPLAIN", "HINT", "WHY_WRONG"}

VARIABLES
  state,          \* App: {questions, attempts, documents} (the persisted app state)
  stored,         \* localStorage[STORAGE_KEY]: <<>> (no item) or <<text>>
  upload,         \* DocumentUpload: <<>> or <<the batch handleFiles works on>>
  savedSession,   \* localStorage[ACTIVE_SESSION_KEY]: <<>> (no item) or <<text>>
  clock,          \* Date.now(), in milliseconds since the behaviour began
  loaded,         \* what the last loadActiveSession call returned: <<>> (null) or <<snapshot>>
  activeSession,  \* App: <<>> (null) or <<QuizSession>>
  isCurating,     \* App: a CUSTOM build is in progress
  curation,       \* the curatePracticeSet call in flight: <<>> or <<request>>
  hasApiKey,      \* getApiKey() returns a non-empty key
  appCrashed,     \* a render threw; no error boundary, the tree is gone
  currentIndex,   \* PracticeSession state
  selectedOption,
  isChecked,
  attempts,
  sinceStart,     \* Date.now() - startTime, in seconds
  timeLeft,
  aiMessage,      \* <<>> (null) or <<response>>
  isAiLoading,
  hintUsed,
  tutorCall,      \* the getTutorResponse call in flight: <<>> or <<request>>
  timer,          \* the setInterval handle of the timer effect is live
  lastOp          \* the handler that ran last

\* what lives outside the App component and its session runner
browserVars == <<upload, savedSession, clock, loaded>>
appVars == <<state, stored, activeSession, isCurating, curation, hasApiKey, appCrashed, browserVars>>
runnerVars == <<currentIndex, selectedOption, isChecked, attempts, sinceStart, timeLeft,
                aiMessage, isAiLoading, hintUsed, tutorCall, timer>>
vars == <<state, stored, upload, savedSession, clock, loaded,
          activeSession, isCurating, curation, hasApiKey, appCrashed,
          currentIndex, selectedOption, isChecked, attempts, sinceStart, timeLeft,
          aiMessage, isAiLoading, hintUsed, tutorCall, timer, lastOp>>

(* ------------------------------ helpers -------------------------------- *)
\* Array.prototype.filter is SelectSeq throughout
Range(s) == {s[i] : i \in 1..Len(s)}

Min(a, b) == IF a < b THEN a ELSE b

\* Slice with the end index taken as inclusive
SliceOneMore(s, n) == SubSeq(s, 1, Min(n + 1, Len(s)))

\* Array.prototype.slice(0, n)
Slice(s, n) == SubSeq(s, 1, Min(n, Len(s)))

\* sort(() => Math.random() - 0.5): the comparator is random, the result is
\* some rearrangement of the array
Shuffles(s) ==
  IF Len(s) <= MaxShuffle
    THEN {p \in [1..Len(s) -> Range(s)] : \A i, j \in 1..Len(s) : i # j => p[i] # p[j]}
    ELSE {[i \in 1..Len(s) |-> s[((i + k) % Len(s)) + 1]] : k \in 1..MaxShuffle}
           \cup {[i \in 1..Len(s) |-> s[Len(s) - ((i + k) % Len(s))]] : k \in 1..MaxShuffle}

\* the question bank a behaviour starts with
Question(i) ==
  [id |-> i,
   correctAnswerIndex |-> (i - 1) % NumOptions,
   options |-> NumOptions,
   subject |-> IF i % 2 = 1 THEN "Polity" ELSE "Economy"]

InitialBank == [i \in 1..BankSize |-> Question(i)]

NoSession == <<>>
HasSession == activeSession # <<>>
session == activeSession[1]
isExamMode == session.mode = "EXAM"
\* session.questions[currentIndex] (0-based in the source)
currentQuestion == session.questions[currentIndex + 1]
isLastQuestion == ~(currentIndex < Len(session.questions) - 1)

(* ------------------------------ localStorage --------------------------- *)
\* JSON.stringify of a value made of numbers, strings, booleans, null, arrays
\* and objects: a text that JSON.parse reads back.  A member that is
\* undefined is left out of the text and reads as undefined afterwards; the
\* model writes the absent and the undefined member alike
stringify(v) == [json |-> "value", value |-> v]

\* a stored text that is no JSON: JSON.parse throws
Garbage == [json |-> "garbage"]

\* the stored text "null": JSON.parse returns null
NullText == [json |-> "null"]

parseThrows(text) == text.json = "garbage"

parsesToNull(text) == text.json = "null"

\* JSON.parse of a text that holds an object
parse(text) == text.value

\* the render after setState(state) and its persistence effect, once
\* hydrated: StorageService.saveState(state) (App.tsx:46-50,
\* storageService.ts:18-25)
PersistEffect == stored' = <<stringify(state')>>

\* StorageService.loadState() || DEFAULT_STATE read from the stored text
\* (storageService.ts:30-39, App.tsx:21-24)
loadState ==
  IF stored = <<>> \/ parseThrows(stored[1]) \/ parsesToNull(stored[1])
    THEN [questions |-> <<>>, attempts |-> <<>>, documents |-> <<>>]
    ELSE parse(stored[1])

(* ---------------------- PracticeSession: lifecycle --------------------- *)
\* timer effect: an interval is live after the effect ran iff timeLeft is
\* defined and positive (PracticeSession.tsx:39-47)
TimerEffect(tl) == tl # undefined /\ tl > 0

\* TimerCleanup without clearInterval: the interval outlives the instance
TimerCleanupMissing == timer

\* cleanup of the timer effect at unmount: clearInterval (PracticeSession.tsx:49)
TimerCleanup == FALSE

\* first render of a PracticeSession instance: the useState initialisers
MountRunner(s) ==
  /\ currentIndex' = 0
  /\ selectedOption' = null
  /\ isChecked' = FALSE
  /\ attempts' = <<>>
  /\ sinceStart' = 0
  /\ timeLeft' = s.timeLimit
  /\ aiMessage' = <<>>
  /\ isAiLoading' = FALSE
  /\ hintUsed' = FALSE
  /\ tutorCall' = <<>>
  /\ timer' = TimerEffect(s.timeLimit)

\* the instance is unmounted: its state is gone, a response still in flight
\* updates nothing, the interval is cleared
UnmountRunner ==
  /\ currentIndex' = 0
  /\ selectedOption' = null
  /\ isChecked' = FALSE
  /\ attempts' = <<>>
  /\ sinceStart' = 0
  /\ timeLeft' = undefined
  /\ aiMessage' = <<>>
  /\ isAiLoading' = FALSE
  /\ hintUsed' = FALSE
  /\ tutorCall' = <<>>
  /\ timer' = TimerCleanup

\* handleSessionComplete putting the new attempts in front of the history
handleSessionCompletePrepending(newAttempts) ==
  /\ state' = [state EXCEPT !.attempts = newAttempts \o @]
  /\ PersistEffect
  /\ activeSession' = NoSession
  /\ UnmountRunner

\* App.handleSessionComplete (App.tsx:167-174)
handleSessionComplete(newAttempts) ==
  /\ state' = [state EXCEPT !.attempts = @ \o newAttempts]
  /\ PersistEffect
  /\ activeSession' = NoSession
  /\ UnmountRunner

\* onExit={() => setActiveSession(null)} (App.tsx:184)
onExit ==
  /\ HasSession /\ ~appCrashed
  /\ activeSession' = NoSession
  /\ UnmountRunner
  /\ lastOp' = "onExit"
  /\ UNCHANGED <<state, stored, isCurating, curation, hasApiKey, appCrashed, browserVars>>

(* ------------------------ PracticeSession: timer ----------------------- *)
\* setTimeLeft(prev => (prev !== undefined && prev > 0 ? prev - 1 : 0))
TickUpdater(prev) == IF prev # undefined /\ prev > 0 THEN prev - 1 ELSE 0

\* AfterTimeLeft with the expiry test off by one (tl < 0 for tl <= 0)
AfterTimeLeftLate(tl) ==
  IF tl < 0
    THEN /\ handleSessionComplete(attempts)
         /\ UNCHANGED <<isCurating, curation, hasApiKey, appCrashed, browserVars>>
    ELSE /\ timeLeft' = tl
         /\ timer' = TimerEffect(tl)
         /\ UNCHANGED <<appVars, currentIndex, selectedOption, isChecked, attempts, sinceStart,
                        aiMessage, isAiLoading, hintUsed, tutorCall>>

\* the render after a change of timeLeft and its timer effect
\* (PracticeSession.tsx:38-50)
AfterTimeLeft(tl) ==
  IF tl <= 0
    THEN /\ handleSessionComplete(attempts)
         /\ UNCHANGED <<isCurating, curation, hasApiKey, appCrashed, browserVars>>
    ELSE /\ timeLeft' = tl
         /\ timer' = TimerEffect(tl)
         /\ UNCHANGED <<appVars, currentIndex, selectedOption, isChecked, attempts, sinceStart,
                        aiMessage, isAiLoading, hintUsed, tutorCall>>

\* one callback of the interval
TimerTick ==
  /\ timer /\ ~appCrashed
  /\ timeLeft <= TailSeconds
  /\ AfterTimeLeft(TickUpdater(timeLeft))
  /\ lastOp' = "TimerTick"

\* timeLeft - TailSeconds callbacks in a row with no user event in between
TimerIdleRun ==
  /\ timer /\ ~appCrashed
  /\ timeLeft > TailSeconds
  /\ AfterTimeLeft(TailSeconds)
  /\ lastOp' = "TimerIdleRun"

(* ----------------------- PracticeSession: AI tutor --------------------- *)
aiVars == <<aiMessage, isAiLoading, hintUsed, tutorCall>>

\* askAi (PracticeSession.tsx:93-107) up to the await; without an API key
\* getTutorResponse resolves at once (geminiService.ts:372)
askAi(type) ==
  IF isAiLoading
    THEN UNCHANGED aiVars
    ELSE /\ hintUsed' = (IF type = "HINT" THEN TRUE ELSE hintUsed)
         /\ IF ~hasApiKey
              THEN /\ aiMessage' = <<[mode |-> type, questionId |-> currentQuestion.id,
                                     text |-> "unavailable"]>>
                   /\ isAiLoading' = FALSE
                   /\ tutorCall' = <<>>
              ELSE /\ isAiLoading' = TRUE
                   /\ tutorCall' = <<[mode |-> type, questionId |-> currentQuestion.id,
                                      userAnswerIndex |-> selectedOption]>>
                   /\ UNCHANGED aiMessage

\* what getTutorResponse resolves to with a key: the model's text (or the
\* stand-in for an empty text), or the apology of the catch block
TutorOutcomes == {"answer", "sorry"}

\* the rest of askAi once getTutorResponse resolves
TutorReturn(text) ==
  /\ HasSession /\ ~appCrashed
  /\ tutorCall # <<>>
  /\ aiMessage' = <<[mode |-> tutorCall[1].mode, questionId |-> tutorCall[1].questionId,
                     text |-> text]>>
  /\ isAiLoading' = FALSE
  /\ tutorCall' = <<>>
  /\ lastOp' = "TutorReturn"
  /\ UNCHANGED <<appVars, currentIndex, selectedOption, isChecked, attempts, sinceStart,
                 timeLeft, hintUsed, timer>>

\* "Get Hint" (PracticeSession.tsx:275-283)
clickHint ==
  /\ HasSession /\ ~appCrashed
  /\ ~isExamMode /\ ~isChecked
  /\ ~(hintUsed \/ isAiLoading)
  /\ askAi("HINT")
  /\ lastOp' = "clickHint"
  /\ UNCHANGED <<appVars, currentIndex, selectedOption, isChecked, attempts, sinceStart,
                 timeLeft, timer>>

\* "Deep Explain (AI)" (PracticeSession.tsx:284-293)
clickExplain ==
  /\ HasSession /\ ~appCrashed
  /\ ~isExamMode /\ isChecked
  /\ ~isAiLoading
  /\ askAi("EXPLAIN")
  /\ lastOp' = "clickExplain"
  /\ UNCHANGED <<appVars, currentIndex, selectedOption, isChecked, attempts, sinceStart,
                 timeLeft, timer>>

(* --------------------- PracticeSession: the questions ------------------ *)
\* selectionLocked without the early return
selectionNeverLocked == FALSE

\* if (isChecked && !isExamMode) return (PracticeSession.tsx:53)
selectionLocked == isChecked /\ ~isExamMode

\* handleOptionSelect (PracticeSession.tsx:52-55)
handleOptionSelect(idx) ==
  /\ HasSession /\ ~appCrashed
  /\ idx \in 0..(currentQuestion.options - 1)
  /\ IF selectionLocked
       THEN UNCHANGED selectedOption
       ELSE selectedOption' = idx
  /\ lastOp' = "handleOptionSelect"
  /\ UNCHANGED <<appVars, currentIndex, isChecked, attempts, sinceStart, timeLeft,
                 aiVars, timer>>

\* newAttempt with the correct index read as 1-based
newAttemptOneBased ==
  [questionId |-> currentQuestion.id,
   userAnswerIndex |-> selectedOption,
   isCorrect |-> (selectedOption + 1 = currentQuestion.correctAnswerIndex),
   timeTaken |-> sinceStart]

\* the Attempt handleCheck builds (PracticeSession.tsx:62-71)
newAttempt ==
  [questionId |-> currentQuestion.id,
   userAnswerIndex |-> selectedOption,
   isCorrect |-> (selectedOption = currentQuestion.correctAnswerIndex),
   timeTaken |-> sinceStart]

\* RecordAttempt without the filter: the new attempt is only appended
RecordAttemptAppendOnly(prev, a) == prev \o <<a>>

\* setAttempts updater (PracticeSession.tsx:73-77)
RecordAttempt(prev, a) ==
  SelectSeq(prev, LAMBDA x : x.questionId # a.questionId) \o <<a>>

\* the action bar renders the check button while the question is unchecked
\* (PracticeSession.tsx:206-213) and the next button once it is checked (214-221)
showsCheckButton == ~isChecked

\* showsNextButton with the next button always rendered
showsNextButtonAlways == TRUE

\* showsNextButton with the next button held back while the tutor is loading
showsNextButtonWhenIdle == isChecked /\ ~isAiLoading

showsNextButton == isChecked

\* handleCheck (PracticeSession.tsx:57-83)
handleCheck ==
  /\ HasSession /\ ~appCrashed
  /\ showsCheckButton
  /\ IF selectedOption = null
       THEN UNCHANGED <<isChecked, attempts, aiVars>>
       ELSE /\ isChecked' = TRUE
            /\ attempts' = RecordAttempt(attempts, newAttempt)
            /\ IF ~newAttempt.isCorrect /\ ~isExamMode
                 THEN askAi("WHY_WRONG")
                 ELSE UNCHANGED aiVars
  /\ lastOp' = "handleCheck"
  /\ UNCHANGED <<appVars, currentIndex, selectedOption, sinceStart, timeLeft, timer>>

\* handleNext advancing by dropping the question just answered from the list
handleNextShifting ==
  /\ HasSession /\ ~appCrashed
  /\ showsNextButton
  /\ IF currentIndex < Len(session.questions) - 1
       THEN /\ activeSession' = <<[session EXCEPT !.questions = Tail(@)]>>
            /\ currentIndex' = currentIndex
            /\ selectedOption' = null
            /\ isChecked' = FALSE
            /\ aiMessage' = <<>>
            /\ hintUsed' = FALSE
            /\ sinceStart' = 0
            /\ UNCHANGED <<state, stored, isCurating, curation, hasApiKey, appCrashed, browserVars,
                           attempts, timeLeft, isAiLoading, tutorCall, timer>>
       ELSE /\ handleSessionComplete(attempts)
            /\ UNCHANGED <<isCurating, curation, hasApiKey, appCrashed, browserVars>>
  /\ lastOp' = "handleNext"

\* handleNext (PracticeSession.tsx:85-91) and the reset effect (28-35)
handleNext ==
  /\ HasSession /\ ~appCrashed
  /\ showsNextButton
  /\ IF currentIndex < Len(session.questions) - 1
       THEN /\ currentIndex' = currentIndex + 1
            /\ selectedOption' = null
            /\ isChecked' = FALSE
            /\ aiMessage' = <<>>
            /\ hintUsed' = FALSE
            /\ sinceStart' = 0
            /\ UNCHANGED <<appVars, attempts, timeLeft, isAiLoading, tutorCall, timer>>
       ELSE /\ handleSessionComplete(attempts)
            /\ UNCHANGED <<isCurating, curation, hasApiKey, appCrashed, browserVars>>
  /\ lastOp' = "handleNext"

(* ------------------------- App: session builder ------------------------ *)
\* a render of PracticeSession reads currentQuestion.subject
\* (PracticeSession.tsx:25,145); it throws when the index is past the list
RenderThrows(s, idx) == ~(idx < Len(s.questions))

\* an uncaught render error unmounts the whole tree
Crash ==
  /\ appCrashed' = TRUE
  /\ activeSession' = NoSession
  /\ isCurating' = FALSE
  /\ curation' = <<>>
  /\ UnmountRunner
  /\ UNCHANGED <<hasApiKey, browserVars>>

\* setActiveSession(s) and the render that follows (App.tsx:117,157,179-186):
\* a mounted PracticeSession instance is reused and keeps its state
InstallSession(s) ==
  IF HasSession
    THEN IF RenderThrows(s, currentIndex)
           THEN Crash
           ELSE /\ activeSession' = <<s>>
                /\ isCurating' = FALSE
                /\ curation' = <<>>
                /\ UNCHANGED <<hasApiKey, browserVars, appCrashed, runnerVars>>
    ELSE /\ activeSession' = <<s>>
         /\ isCurating' = FALSE
         /\ curation' = <<>>
         /\ MountRunner(s)
         /\ UNCHANGED <<hasApiKey, browserVars, appCrashed>>

\* the QuizSession object literal (App.tsx:107-116, 146-155)
NewSession(mode, qs, limit) ==
  [mode |-> mode,
   questions |-> qs,
   currentQuestionIndex |-> 0,
   attempts |-> <<>>,
   timeLimit |-> limit,
   isComplete |-> FALSE]

\* new Set(state.attempts.filter(a => !a.isCorrect).map(a => a.questionId))
incorrectIds == {a.questionId : a \in {x \in Range(state.attempts) : ~x.isCorrect}}

\* AdaptiveOrder with the comparator turned round (aW - bW)
AdaptiveOrderMissedLast(qs) ==
  SelectSeq(qs, LAMBDA q : q.id \notin incorrectIds) \o SelectSeq(qs, LAMBDA q : q.id \in incorrectIds)

\* the stable sort by bW - aW (App.tsx:93-97)
AdaptiveOrder(qs) ==
  SelectSeq(qs, LAMBDA q : q.id \in incorrectIds) \o SelectSeq(qs, LAMBDA q : q.id \notin incorrectIds)

\* the orders handleStartPractice can arrive at (App.tsx:87-105)
Ordered(mode, qs) == IF mode = "ADAPTIVE" THEN {AdaptiveOrder(qs)} ELSE Shuffles(qs)

\* handleStartPractice (App.tsx:80-119); the menu is rendered only while no
\* session is active (App.tsx:179)
handleStartPractice(mode) ==
  /\ ~HasSession /\ ~appCrashed
  /\ IF Len(state.questions) = 0
       THEN UNCHANGED <<activeSession, runnerVars>>
       ELSE \E selectedQuestions \in Ordered(mode, state.questions) :
              /\ activeSession' = <<NewSession(mode, Slice(selectedQuestions, PageSize),
                                               IF mode = "EXAM" THEN ExamTimeLimit ELSE undefined)>>
              /\ MountRunner(activeSession'[1])
  /\ lastOp' = "handleStartPractice"
  /\ UNCHANGED <<state, stored, isCurating, curation, hasApiKey, appCrashed, browserVars>>

(* --------------------------- App: CUSTOM build ------------------------- *)
\* the subject filter of curatePracticeSet (geminiService.ts:429, 436-439)
Candidates(all, subject) == SelectSeq(all, LAMBDA q : subject = "All" \/ q.subject = subject)

Ids(qs) == [i \in 1..Len(qs) |-> qs[i].id]

\* FallbackIds taking one candidate more than asked for
FallbackIdsOneMore(p, count) == Ids(Slice(p, count + 1))

\* the random fallback once candidates is shuffled: .slice(0, count).map(q => q.id)
\* (geminiService.ts:431-432, 490-491)
FallbackIds(p, count) == Ids(Slice(p, count))

\* what generateContent can return as the selection
AiSelections ==
  UNION {[1..n -> {UnknownId} \cup (1..BankSize)] : n \in 1..MaxAiIds}

\* FinishCustom without the test for an empty selection
FinishCustomUnchecked(all, selectedIds, duration) ==
  LET selectedQuestions == SelectSeq(all, LAMBDA q : q.id \in Range(selectedIds)) IN
  InstallSession(NewSession("CUSTOM", selectedQuestions,
                            IF duration > 0 THEN duration * SecondsPerMinute ELSE undefined))

\* the rest of handleStartCustomPractice after the await (App.tsx:138-164);
\* all is the state.questions the handler closed over
FinishCustom(all, selectedIds, duration) ==
  LET selectedQuestions == SelectSeq(all, LAMBDA q : q.id \in Range(selectedIds)) IN
  IF Len(selectedQuestions) = 0
    THEN /\ isCurating' = FALSE
         /\ curation' = <<>>
         /\ UNCHANGED <<activeSession, hasApiKey, appCrashed, browserVars, runnerVars>>
    ELSE InstallSession(NewSession("CUSTOM", selectedQuestions,
                                   IF duration > 0 THEN duration * SecondsPerMinute ELSE undefined))

\* handleStartCustomPractice (App.tsx:121-136) and curatePracticeSet up to its
\* await (geminiService.ts:422-447); candidates.sort() sorts the array in
\* place, and for subject "All" that array is state.questions itself
handleStartCustomPractice(count, subject, duration) ==
  /\ ~HasSession /\ ~appCrashed
  /\ ~isCurating
  /\ lastOp' = "handleStartCustomPractice"
  /\ IF Len(state.questions) = 0
       THEN UNCHANGED <<appVars, runnerVars>>
       ELSE LET candidates == Candidates(state.questions, subject) IN
            IF ~hasApiKey
              THEN /\ \E p \in Shuffles(candidates) :
                        FinishCustom(state.questions, FallbackIds(p, count), duration)
                   /\ UNCHANGED <<state, stored>>
              ELSE IF Len(candidates) <= count
                THEN /\ FinishCustom(state.questions, Ids(candidates), duration)
                     /\ UNCHANGED <<state, stored>>
                ELSE \E p \in Shuffles(candidates) :
                       LET all == IF subject = "All" THEN p ELSE state.questions IN
                       /\ state' = [state EXCEPT !.questions = all]
                       /\ UNCHANGED stored
                       /\ isCurating' = TRUE
                       /\ curation' = <<[questions |-> all, candidates |-> p, count |-> count,
                                         subject |-> subject, duration |-> duration,
                                         shared |-> TRUE]>>
                       /\ UNCHANGED <<activeSession, hasApiKey, appCrashed, browserVars, runnerVars>>

\* generateContent resolves with a selection (geminiService.ts:472-486)
CurateReturn(selectedIds) ==
  /\ ~appCrashed
  /\ curation # <<>>
  /\ FinishCustom(curation[1].questions, selectedIds, curation[1].duration)
  /\ lastOp' = "CurateReturn"
  /\ UNCHANGED <<state, stored>>

\* generateContent fails or returns nothing usable: the random fallback
\* (geminiService.ts:487-493) sorts candidates in place once more; the array
\* is still state.questions unless a setState replaced the bank meanwhile
CurateFails ==
  /\ ~appCrashed
  /\ curation # <<>>
  /\ \E p \in Shuffles(curation[1].candidates) :
       LET all == IF curation[1].subject = "All" THEN p ELSE curation[1].questions IN
       /\ state' = [state EXCEPT !.questions = IF curation[1].shared THEN all ELSE @]
       /\ UNCHANGED stored
       /\ FinishCustom(all, FallbackIds(p, curation[1].count), curation[1].duration)
  /\ lastOp' = "CurateFails"

(* --------------------------- bank: ingestion --------------------------- *)
\* a well-formed element of the extraction response
GoodItem ==
  [text |-> "t", optionsIsArray |-> TRUE, options |-> NumOptions,
   indexIsNumber |-> TRUE, correctAnswerIndex |-> 0, subject |-> "Polity"]

\* what one element of the extraction response can look like: well-formed,
\* or off in one field
ExtractedItems ==
  {GoodItem,
   [GoodItem EXCEPT !.text = ""],
   [GoodItem EXCEPT !.optionsIsArray = FALSE],
   [GoodItem EXCEPT !.options = 1],
   [GoodItem EXCEPT !.indexIsNumber = FALSE, !.correctAnswerIndex = NumOptions],
   [GoodItem EXCEPT !.correctAnswerIndex = NumOptions]}

\* the responses of generateContent that parse as JSON: something that is no
\* array, or an array of items
ExtractionResponses ==
  {[isArray |-> FALSE, items |-> <<>>]}
    \cup {[isArray |-> TRUE, items |-> items] :
            items \in UNION {[1..n -> ExtractedItems] : n \in 0..MaxItems}}

\* the element mapping of parseMCQsFromText (geminiService.ts:330-339)
ParsedItem(q) ==
  [text |-> q.text,
   options |-> IF q.optionsIsArray THEN q.options ELSE 0,
   correctAnswerIndex |-> IF q.indexIsNumber THEN q.correctAnswerIndex ELSE 0,
   subject |-> IF q.subject \in Subjects \cup {GENERAL_AWARENESS}
                 THEN q.subject ELSE GENERAL_AWARENESS]

\* parseMCQsFromText after JSON.parse (geminiService.ts:323-340)
parseMCQsFromText(response) ==
  IF ~response.isArray
    THEN <<>>
    ELSE SelectSeq([i \in 1..Len(response.items) |-> ParsedItem(response.items[i])],
                   LAMBDA q : q.text # "" /\ q.options >= 2)

\* every identifier some part of the state still refers to
UsedIds ==
  {q.id : q \in Range(state.questions)}
    \cup {a.questionId : a \in Range(state.attempts)}
    \cup {a.questionId : a \in Range(attempts)}
    \cup (IF HasSession THEN {q.id : q \in Range(session.questions)} ELSE {})
    \cup (IF curation # <<>> THEN {q.id : q \in Range(curation[1].questions)} ELSE {})

\* Math.random().toString(36)... + Date.now().toString(36): an identifier
\* nothing refers to (DocumentUpload.tsx:239)
FreshId(k) == CHOOSE i \in 1..(Cardinality(UsedIds) + k) :
                Cardinality({j \in 1..i : j \notin UsedIds}) = k

\* the newQuestions handleFiles builds (DocumentUpload.tsx:237-241)
newQuestions(parsedMcqs) ==
  [i \in 1..Len(parsedMcqs) |->
     [id |-> FreshId(i),
      correctAnswerIndex |-> parsedMcqs[i].correctAnswerIndex,
      options |-> parsedMcqs[i].options,
      subject |-> parsedMcqs[i].subject]]

\* a setState that replaces state.questions: the array a pending
\* curatePracticeSet call holds is no longer the bank's
BankReplaced ==
  curation' = IF curation = <<>> THEN <<>> ELSE <<[curation[1] EXCEPT !.shared = FALSE]>>

\* the updater of App.handleDocumentParsed (App.tsx:73-78)
handleDocumentParsed(prev, new) == [prev EXCEPT !.questions = new \o @]

\* the updater of onUploadComplete (App.tsx:198-209); the entry keeps the
\* file name and the count
onUploadComplete(prev, name, count) ==
  [prev EXCEPT !.documents = Append(@, [name |-> name, questionCount |-> count])]

\* FileParsed logging the document without merging its questions
FileParsedLogOnly(name, parsedMcqs) ==
  /\ state' = onUploadComplete(state, name, Len(parsedMcqs))
  /\ PersistEffect
  /\ BankReplaced

\* a file that yielded questions: onQuestionsParsed(newQuestions), then
\* onUploadComplete(file.name, newQuestions.length) (DocumentUpload.tsx:236-246)
FileParsed(name, parsedMcqs) ==
  /\ state' = onUploadComplete(handleDocumentParsed(state, newQuestions(parsedMcqs)),
                                name, Len(parsedMcqs))
  /\ PersistEffect
  /\ BankReplaced

\* the drop zone takes no event while a batch is processed
\* (DocumentUpload.tsx:293)
isProcessing == upload # <<>> /\ upload[1].phase # "done"

\* handleFiles for a batch of one file whose text was extracted, from the
\* drop to the end of the batch (DocumentUpload.tsx:184-277); without a key
\* parseMCQsFromText throws
handleFiles(response) ==
  /\ ~appCrashed
  /\ hasApiKey
  /\ ~isProcessing
  /\ LET parsedMcqs == parseMCQsFromText(response) IN
     IF Len(parsedMcqs) > 0
       THEN FileParsed(1, parsedMcqs)
       ELSE UNCHANGED <<state, stored, curation>>
  /\ lastOp' = "handleFiles"
  /\ UNCHANGED <<activeSession, isCurating, hasApiKey, appCrashed, browserVars, runnerVars>>

\* onDelete of the question bank view (App.tsx:227), rendered only while no
\* session is active (App.tsx:179)
onDelete(id) ==
  /\ ~HasSession /\ ~appCrashed
  /\ id \in {q.id : q \in Range(state.questions)}
  /\ state' = [state EXCEPT !.questions = SelectSeq(@, LAMBDA q : q.id # id)]
  /\ PersistEffect
  /\ BankReplaced
  /\ lastOp' = "onDelete"
  /\ UNCHANGED <<activeSession, isCurating, hasApiKey, appCrashed, browserVars, runnerVars>>

(* ------------------------------- Dashboard ----------------------------- *)
\* new Set(state.attempts.map(a => a.questionId)) (App.tsx:611)
uniqueAttemptedIds == {a.questionId : a \in Range(state.attempts)}

\* Math.max(0, totalQuestions - uniqueAttemptedIds.size) (App.tsx:612)
unattemptedCount ==
  IF Len(state.questions) - Cardinality(uniqueAttemptedIds) > 0
    THEN Len(state.questions) - Cardinality(uniqueAttemptedIds) ELSE 0

\* attemptsForQ[attemptsForQ.length - 1] (App.tsx:619-621)
lastAttempt(id) ==
  LET attemptsForQ == SelectSeq(state.attempts, LAMBDA a : a.questionId = id)
  IN attemptsForQ[Len(attemptsForQ)]

\* the forEach over uniqueAttemptedIds (App.tsx:618-625)
uniqueCorrect == Cardinality({id \in uniqueAttemptedIds : lastAttempt(id).isCorrect})

uniqueWrong == Cardinality({id \in uniqueAttemptedIds : ~lastAttempt(id).isCorrect})

\* pieData (App.tsx:627-631)
pieData == [Mastered |-> uniqueCorrect, NeedsReview |-> uniqueWrong, Unseen |-> unattemptedCount]

\* MathRound rounding down
MathFloor(num, den) == num \div den

\* Math.round(num / den) for num >= 0 and den > 0: the nearest integer, a
\* half rounded up
MathRound(num, den) == (2 * num + den) \div (2 * den)

\* the forEach of the accuracy trend from attempt index on (index is
\* 1-based), with the loop's chunkSum, chunkCount and the points pushed so far
\* (App.tsx:597-608)
RECURSIVE trendLoop(_, _, _, _, _)
trendLoop(atts, index, chunkSum, chunkCount, points) ==
  IF index > Len(atts)
    THEN points
    ELSE LET sum == chunkSum + (IF atts[index].isCorrect THEN 1 ELSE 0)
             count == chunkCount + 1
         IN IF count = chunkSize \/ index = Len(atts)
              THEN trendLoop(atts, index + 1, 0, 0,
                             Append(points, [attempt |-> index,
                                             accuracy |-> MathRound(sum * 100, count)]))
              ELSE trendLoop(atts, index + 1, sum, count, points)

\* trendData (App.tsx:591-608)
trendData == trendLoop(state.attempts, 1, 0, 0, <<>>)

(* ------------------------------ environment ---------------------------- *)
\* wall-clock time passes
ClockAdvance ==
  /\ HasSession /\ ~appCrashed
  /\ sinceStart < MaxElapsed
  /\ sinceStart' = sinceStart + 1
  /\ lastOp' = "ClockAdvance"
  /\ UNCHANGED <<appVars, currentIndex, selectedOption, isChecked, attempts, timeLeft,
                 aiVars, timer>>

(* ---------------------------- specification ---------------------------- *)
\* after the first render and its effects: isHydrated is set and the state
\* the App started with is saved (App.tsx:46-55); no batch is processed and
\* no session snapshot is stored
Hydrated ==
  /\ stored = <<stringify(state)>>
  /\ upload = <<>>
  /\ savedSession = <<>>
  /\ clock = 0
  /\ loaded = <<>>

CustomCounts == 1..BankSize
CustomSubjects == {"All"} \cup Subjects
CustomDurations == {0, 1}

Init ==
  /\ state = [questions |-> InitialBank, attempts |-> <<>>, documents |-> <<>>]
  /\ Hydrated
  /\ activeSession = NoSession
  /\ isCurating = FALSE
  /\ curation = <<>>
  /\ hasApiKey \in BOOLEAN
  /\ appCrashed = FALSE
  /\ currentIndex = 0
  /\ selectedOption = null
  /\ isChecked = FALSE
  /\ attempts = <<>>
  /\ sinceStart = 0
  /\ timeLeft = undefined
  /\ aiMessage = <<>>
  /\ isAiLoading = FALSE
  /\ hintUsed = FALSE
  /\ tutorCall = <<>>
  /\ timer = FALSE
  /\ lastOp = "init"

\* sessions are built while the attempt history is shorter than MaxHistory
HistoryOpen == Len(state.attempts) < MaxHistory

Next ==
  \/ \E mode \in {"STANDARD", "ADAPTIVE", "EXAM"} : HistoryOpen /\ handleStartPractice(mode)
  \/ \E count \in CustomCounts, subject \in CustomSubjects, duration \in CustomDurations :
       HistoryOpen /\ handleStartCustomPractice(count, subject, duration)
  \/ \E selectedIds \in AiSelections : HistoryOpen /\ CurateReturn(selectedIds)
  \/ HistoryOpen /\ CurateFails
  \/ \E idx \in 0..(NumOptions - 1) : handleOptionSelect(idx)
  \/ handleCheck
  \/ handleNext
  \/ clickHint
  \/ clickExplain
  \/ \E text \in TutorOutcomes : TutorReturn(text)
  \/ TimerTick
  \/ TimerIdleRun
  \/ onExit
  \/ ClockAdvance

Spec == Init /\ [][Next]_vars

\* the callback of a live interval runs again and again: setInterval fires
\* every second until clearInterval (PracticeSession.tsx:44-49)
SpecLive == Init /\ [][Next]_vars /\ WF_vars(TimerTick) /\ WF_vars(TimerIdleRun)

(* ------------------ the bank: ingestion, sessions, deletion ------------ *)
\* DEFAULT_STATE: nothing ingested yet
InitBank ==
  /\ state = [questions |-> <<>>, attempts |-> <<>>, documents |-> <<>>]
  /\ Hydrated
  /\ activeSession = NoSession
  /\ isCurating = FALSE
  /\ curation = <<>>
  /\ hasApiKey \in BOOLEAN
  /\ appCrashed = FALSE
  /\ currentIndex = 0
  /\ selectedOption = null
  /\ isChecked = FALSE
  /\ attempts = <<>>
  /\ sinceStart = 0
  /\ timeLeft = undefined
  /\ aiMessage = <<>>
  /\ isAiLoading = FALSE
  /\ hintUsed = FALSE
  /\ tutorCall = <<>>
  /\ timer = FALSE
  /\ lastOp = "init"

BankHistoryOpen == Len(state.attempts) < MaxBankHistory

NextBank ==
  \/ \E response \in ExtractionResponses :
       /\ Len(state.questions) + Len(parseMCQsFromText(response)) <= MaxBankQuestions
       /\ Cardinality(UsedIds) + Len(parseMCQsFromText(response)) <= MaxIds
       /\ Len(state.documents) < MaxDocuments
       /\ handleFiles(response)
  \/ \E id \in 1..MaxIds : onDelete(id)
  \/ \E mode \in {"STANDARD", "ADAPTIVE", "EXAM"} : BankHistoryOpen /\ handleStartPractice(mode)
  \/ \E count \in CustomCounts, subject \in CustomSubjects, duration \in CustomDurations :
       BankHistoryOpen /\ handleStartCustomPractice(count, subject, duration)
  \/ \E selectedIds \in AiSelections : BankHistoryOpen /\ CurateReturn(selectedIds)
  \/ BankHistoryOpen /\ CurateFails
  \/ \E idx \in 0..(NumOptions - 1) : handleOptionSelect(idx)
  \/ handleCheck
  \/ handleNext
  \/ \E text \in TutorOutcomes : TutorReturn(text)
  \/ TimerTick
  \/ TimerIdleRun
  \/ onExit

SpecBank == InitBank /\ [][NextBank]_vars

(* ------------------- the session builder on a stored state ------------- *)
\* the sets of previously-missed questions of a bank of n questions
MissedSets(n) ==
  {S \in SUBSET (1..n) : Cardinality(S) <= MaxMissed \/ Cardinality(S) >= n - 1}

\* an attempt of the history: a wrong or the right option of bank question i
PastAttempt(i, right) ==
  [questionId |-> i,
   userAnswerIndex |-> IF right THEN Question(i).correctAnswerIndex
                                ELSE (Question(i).correctAnswerIndex + 1) % NumOptions,
   isCorrect |-> right,
   timeTaken |-> 0]

\* the ascending enumeration of a set of identifiers
RECURSIVE Ascending(_)
Ascending(S) ==
  IF S = {} THEN <<>>
  ELSE LET m == CHOOSE x \in S : \A y \in S : x <= y IN <<m>> \o Ascending(S \ {m})

\* a history in which exactly the questions of S were missed (none when S is
\* empty); the missed questions with an even identifier were answered
\* correctly later, and so were the first two questions of the bank when
\* they were never missed
StoredHistory(n, S) ==
  LET missed == Ascending(S)
      later == IF S = {} THEN <<>>
               ELSE Ascending({i \in S : i % 2 = 0} \cup {i \in 1..Min(2, n) : i \notin S})
  IN [k \in 1..Len(missed) |-> PastAttempt(missed[k], FALSE)]
       \o [k \in 1..Len(later) |-> PastAttempt(later[k], TRUE)]

\* StorageService.loadState(): a bank of up to MaxBuildBank questions and
\* an attempt history saved by an earlier run (App.tsx:21-24)
InitBuild ==
  /\ \E n \in 0..MaxBuildBank : \E S \in MissedSets(n) :
       state = [questions |-> [i \in 1..n |-> Question(i)], attempts |-> StoredHistory(n, S),
                documents |-> <<>>]
  /\ Hydrated
  /\ activeSession = NoSession
  /\ isCurating = FALSE
  /\ curation = <<>>
  /\ hasApiKey \in BOOLEAN
  /\ appCrashed = FALSE
  /\ currentIndex = 0
  /\ selectedOption = null
  /\ isChecked = FALSE
  /\ attempts = <<>>
  /\ sinceStart = 0
  /\ timeLeft = undefined
  /\ aiMessage = <<>>
  /\ isAiLoading = FALSE
  /\ hintUsed = FALSE
  /\ tutorCall = <<>>
  /\ timer = FALSE
  /\ lastOp = "init"

\* the CUSTOM build does not read the history: it is followed from the stored
\* states without one, and the other builds while no curation is pending
NextBuild ==
  \/ \E mode \in {"STANDARD", "ADAPTIVE", "EXAM"} : ~isCurating /\ handleStartPractice(mode)
  \/ \E count \in CustomCounts, subject \in CustomSubjects, duration \in CustomDurations :
       state.attempts = <<>> /\ handleStartCustomPractice(count, subject, duration)
  \/ \E selectedIds \in AiSelections : CurateReturn(selectedIds)
  \/ CurateFails

SpecBuild == InitBuild /\ [][NextBuild]_vars

(* --------------------- the Dashboard on a stored history --------------- *)
\* the stored attempt histories: every sequence of right and wrong answers
\* of up to MaxTrendAttempts attempts
TrendHistories ==
  UNION {[1..n -> {PastAttempt(1, TRUE), PastAttempt(1, FALSE)}] : n \in 0..MaxTrendAttempts}

\* StorageService.loadState(): the bank and an attempt history saved by an
\* earlier run (App.tsx:21-24); no key is configured
InitTrend ==
  /\ \E history \in TrendHistories :
       state = [questions |-> InitialBank, attempts |-> history, documents |-> <<>>]
  /\ Hydrated
  /\ activeSession = NoSession
  /\ isCurating = FALSE
  /\ curation = <<>>
  /\ hasApiKey = FALSE
  /\ appCrashed = FALSE
  /\ currentIndex = 0
  /\ selectedOption = null
  /\ isChecked = FALSE
  /\ attempts = <<>>
  /\ sinceStart = 0
  /\ timeLeft = undefined
  /\ aiMessage = <<>>
  /\ isAiLoading = FALSE
  /\ hintUsed = FALSE
  /\ tutorCall = <<>>
  /\ timer = FALSE
  /\ lastOp = "init"

\* one more session is run on top of the stored history
NextTrend ==
  \/ Len(state.attempts) <= MaxTrendAttempts /\ handleStartPractice("ADAPTIVE")
  \/ \E idx \in 0..(NumOptions - 1) : handleOptionSelect(idx)
  \/ handleCheck
  \/ handleNext

SpecTrend == InitTrend /\ [][NextTrend]_vars

(* ------------------- DocumentUpload: a batch of files ------------------ *)
\* what the batch leaves alone
uploadFrame == <<activeSession, isCurating, hasApiKey, appCrashed, savedSession, clock, loaded,
                 runnerVars>>

\* the locals of handleFiles when the loop starts (DocumentUpload.tsx:190-198);
\* files[i] is named i + 1
Batch(total) ==
  [total |-> total, i |-> 0, phase |-> "extractTextFromFile",
   totalQuestions |-> 0, processedCount |-> 0, errorCount |-> 0, lastError |-> <<>>]

\* handleFiles up to its first await (DocumentUpload.tsx:184-205)
handleFilesBegin(total) ==
  /\ ~appCrashed
  /\ ~isProcessing
  /\ IF total = 0
       THEN UNCHANGED upload
       ELSE upload' = <<Batch(total)>>
  /\ lastOp' = "handleFilesBegin"
  /\ UNCHANGED <<state, stored, curation, uploadFrame>>

\* i++ and the loop test; after the last file setIsProcessing(false)
\* (DocumentUpload.tsx:198, 260-262), and so up to the next await
LoopOn(b) ==
  IF b.i + 1 < b.total
    THEN [b EXCEPT !.i = @ + 1, !.phase = "extractTextFromFile"]
    ELSE [b EXCEPT !.i = @ + 1, !.phase = "done"]

\* lastError = ...; errorCount++; and on with the loop: the two continue
\* statements, the else branch and the catch block
\* (DocumentUpload.tsx:214-225, 248-257)
FileFailed(why) ==
  /\ upload' = <<LoopOn([upload[1] EXCEPT !.errorCount = @ + 1,
                                          !.lastError = <<[name |-> upload[1].i + 1,
                                                          why |-> why]>>])>>
  /\ UNCHANGED <<state, stored, curation>>

\* what extractTextFromFile can resolve to: nothing but white space, fewer
\* than 50 characters, a longer text; or it rejects
ExtractedTexts == {"", "short", "long", "rejects"}

\* extractTextFromFile settles (DocumentUpload.tsx:205-233); without a key
\* parseMCQsFromText throws at once
extractTextReturns(text) ==
  /\ ~appCrashed
  /\ isProcessing
  /\ upload[1].phase = "extractTextFromFile"
  /\ IF text = "rejects" THEN FileFailed("Processing failed")
     ELSE IF text = "" THEN FileFailed("No text content found")
     ELSE IF text = "short" THEN FileFailed("Very little text extracted")
     ELSE IF ~hasApiKey THEN FileFailed("API key not configured")
     ELSE /\ upload' = <<[upload[1] EXCEPT !.phase = "parseMCQsFromText"]>>
          /\ UNCHANGED <<state, stored, curation>>
  /\ lastOp' = "extractTextReturns"
  /\ UNCHANGED uploadFrame

\* parseMCQsFromText resolves (DocumentUpload.tsx:233-252)
parseReturns(response) ==
  /\ ~appCrashed
  /\ isProcessing
  /\ upload[1].phase = "parseMCQsFromText"
  /\ LET parsedMcqs == parseMCQsFromText(response) IN
     IF Len(parsedMcqs) > 0
       THEN /\ FileParsed(upload[1].i + 1, parsedMcqs)
            /\ upload' = <<LoopOn([upload[1] EXCEPT !.totalQuestions = @ + Len(parsedMcqs),
                                                    !.processedCount = @ + 1])>>
       ELSE FileFailed("No MCQ questions found in content")
  /\ lastOp' = "parseReturns"
  /\ UNCHANGED uploadFrame

\* parseMCQsFromText rejects: the API call or JSON.parse threw
\* (geminiService.ts:357-360, DocumentUpload.tsx:253-257)
parseRejects ==
  /\ ~appCrashed
  /\ isProcessing
  /\ upload[1].phase = "parseMCQsFromText"
  /\ FileFailed("Processing failed")
  /\ lastOp' = "parseRejects"
  /\ UNCHANGED uploadFrame

\* a batch is dropped while the identifiers and the document log have room
\* for all of its files
NextUpload ==
  \/ \E total \in 0..MaxFiles :
       /\ Cardinality(UsedIds) + total * MaxItems <= MaxIds
       /\ Len(state.documents) + total <= MaxDocuments
       /\ handleFilesBegin(total)
  \/ \E text \in ExtractedTexts : extractTextReturns(text)
  \/ \E response \in ExtractionResponses : parseReturns(response)
  \/ parseRejects
  \/ \E id \in 1..MaxIds : onDelete(id)

SpecUpload == InitBank /\ [][NextUpload]_vars

(* ------------------ StorageService: the session snapshot --------------- *)
\* what a call of the snapshot functions leaves alone
snapshotFrame == <<state, stored, upload, activeSession, isCurating, curation, hasApiKey,
                   appCrashed, runnerVars>>

\* saveActiveSession (storageService.ts:89-101)
saveActiveSession(s, atts, idx) ==
  /\ savedSession' = <<stringify([session |-> s, attempts |-> atts, currentIndex |-> idx,
                                  savedAt |-> clock])>>
  /\ lastOp' = "saveActiveSession"
  /\ UNCHANGED <<snapshotFrame, clock, loaded>>

\* clearActiveSession (storageService.ts:130-136): removeItem
clearActiveSession == savedSession' = <<>>

\* tooOld with the limit itself counted as too old (>= for >)
tooOldInclusive(parsed) == clock - parsed.savedAt >= MaxAgeHours * MsPerHour

\* hoursSinceSave > 24, with hoursSinceSave = (Date.now() - parsed.savedAt) /
\* (1000 * 60 * 60) (storageService.ts:114-115); the division is multiplied
\* out
tooOld(parsed) == clock - parsed.savedAt > MaxAgeHours * MsPerHour

\* loadActiveSession (storageService.ts:106-125); reading savedAt of null
\* throws like JSON.parse does, and the catch block returns null
loadActiveSession ==
  /\ IF savedSession = <<>>
       THEN loaded' = <<>> /\ UNCHANGED savedSession
       ELSE IF parseThrows(savedSession[1]) \/ parsesToNull(savedSession[1])
         THEN loaded' = <<>> /\ UNCHANGED savedSession
         ELSE LET parsed == parse(savedSession[1]) IN
              IF tooOld(parsed)
                THEN clearActiveSession /\ loaded' = <<>>
                ELSE loaded' = <<parsed>> /\ UNCHANGED savedSession
  /\ lastOp' = "loadActiveSession"
  /\ UNCHANGED <<snapshotFrame, clock>>

\* a caller clears the snapshot
ClearCalled ==
  /\ clearActiveSession
  /\ lastOp' = "clearActiveSession"
  /\ UNCHANGED <<snapshotFrame, clock, loaded>>

HalfDay == 12 * MsPerHour

\* Date.now() moves on by d milliseconds
TimePasses(d) ==
  /\ clock + d <= MaxHalfDays * HalfDay + MaxOddMs
  /\ (clock + d) % HalfDay <= MaxOddMs
  /\ clock' = clock + d
  /\ lastOp' = "TimePasses"
  /\ UNCHANGED <<snapshotFrame, savedSession, loaded>>

\* the sessions, attempt lists and indices handed to saveActiveSession
SnapshotSessions ==
  {NewSession("STANDARD", InitialBank, undefined), NewSession("EXAM", InitialBank, ExamTimeLimit)}

SnapshotAttempts == {<<>>, <<PastAttempt(1, TRUE)>>}

\* the item is absent, or holds what an earlier page left there
InitSnapshot ==
  /\ state = [questions |-> InitialBank, attempts |-> <<>>, documents |-> <<>>]
  /\ stored = <<stringify(state)>>
  /\ upload = <<>>
  /\ savedSession \in {<<>>, <<Garbage>>, <<NullText>>}
  /\ clock = 0
  /\ loaded = <<>>
  /\ activeSession = NoSession
  /\ isCurating = FALSE
  /\ curation = <<>>
  /\ hasApiKey \in BOOLEAN
  /\ appCrashed = FALSE
  /\ currentIndex = 0
  /\ selectedOption = null
  /\ isChecked = FALSE
  /\ attempts = <<>>
  /\ sinceStart = 0
  /\ timeLeft = undefined
  /\ aiMessage = <<>>
  /\ isAiLoading = FALSE
  /\ hintUsed = FALSE
  /\ tutorCall = <<>>
  /\ timer = FALSE
  /\ lastOp = "init"

NextSnapshot ==
  \/ \E s \in SnapshotSessions, atts \in SnapshotAttempts, idx \in 0..(BankSize - 1) :
       saveActiveSession(s, atts, idx)
  \/ loadActiveSession
  \/ ClearCalled
  \/ \E d \in {1, HalfDay} : TimePasses(d)

SpecSnapshot == InitSnapshot /\ [][NextSnapshot]_vars

(* ================================ claims =============================== *)
\* attempts.filter(a => a.isCorrect).length (SessionResults.tsx:25)
correctCount == Len(SelectSeq(attempts, LAMBDA a : a.isCorrect))

SessionIds == {q.id : q \in Range(session.questions)}

TimerOps == {"TimerTick", "TimerIdleRun"}

\* C1: while a session runs, its attempt list holds at most one Attempt per
\* question identifier (a check of a question that already has an attempt
\* replaces it), so the list is never longer than the number of distinct
\* session questions, and 0 <= correctCount <= session.questions.length.
C1_OneAttemptPerQuestion ==
  HasSession =>
    /\ \A i, j \in 1..Len(attempts) :
         i # j => attempts[i].questionId # attempts[j].questionId
    /\ Len(attempts) <= Cardinality(SessionIds)
    /\ 0 <= correctCount
    /\ correctCount <= Len(session.questions)

\* a second check of a question that already had an attempt: one attempt is
\* on the list although the runner is on its second question
C1_Witness ==
  /\ HasSession
  /\ lastOp = "handleCheck"
  /\ isChecked
  /\ currentIndex = 1
  /\ Len(attempts) = 1

\* C2: in a session with a countdown the timer is live in every state of the
\* run (selection made or not, question checked or not), and the tick that
\* brings the countdown to zero ends the session and hands over exactly the
\* attempts recorded so far (none when no answer was checked).
C2_TimeoutCompletes ==
  [][/\ (HasSession /\ timeLeft # undefined) => timer
     /\ (HasSession /\ lastOp' = "TimerTick" /\ TickUpdater(timeLeft) = 0 /\ timer)
          => /\ ~HasSession'
             /\ state'.attempts = state.attempts \o attempts
             /\ (attempts = <<>> => state'.attempts = state.attempts)]_vars

\* the countdown ended a session in which an answer had been checked
C2_Witness ==
  /\ ~HasSession
  /\ lastOp = "TimerTick"
  /\ state.attempts # <<>>

\* C3: once the session is over (completed by the last advance or by the
\* timer, or exited) the timer is stopped: no tick happens and nothing is
\* added to the attempt history while no session is active; the history
\* grows only in the step that ends a session, by that session's attempts.
C3_TimerStoppedAfterSession ==
  [][/\ ~HasSession => ~timer
     /\ ~HasSession => (lastOp' \notin TimerOps /\ state'.attempts = state.attempts)
     /\ state'.attempts # state.attempts
          => /\ HasSession /\ ~HasSession'
             /\ state'.attempts = state.attempts \o attempts]_vars

\* a session was exited early
C3_Witness ==
  /\ ~HasSession
  /\ lastOp = "onExit"
  /\ ~timer

\* C4: in the practice modes the index grows and the user completes the
\* session only from a checked question, and an answer is checked only
\* while an option is selected.
C4_PracticeAdvanceNeedsCheck ==
  [][(HasSession /\ ~isExamMode)
       => /\ ~isChecked => (HasSession' => currentIndex' <= currentIndex)
          /\ ~isChecked => lastOp' # "handleNext"
          /\ (HasSession' /\ (attempts' # attempts \/ (isChecked' /\ ~isChecked)))
               => selectedOption # null]_vars

\* a practice session that advanced to its second question, now unchecked
C4_Witness ==
  /\ HasSession
  /\ session.mode \in {"STANDARD", "ADAPTIVE", "CUSTOM"}
  /\ lastOp = "handleNext"
  /\ currentIndex = 1
  /\ ~isChecked

\* C5: in EXAM mode one press of the primary button ("Next Question" /
\* "Finish Exam") on an unchecked question is a check-and-advance: the
\* runner leaves the question (next index, or the session is complete) in
\* that step.
C5_ExamNextIsCheckAndAdvance ==
  [][(HasSession /\ isExamMode /\ ~isChecked /\ lastOp' \in {"handleCheck", "handleNext"})
       => \/ HasSession' /\ currentIndex' = currentIndex + 1
          \/ ~HasSession']_vars

\* C6: the selection changes to another option only by handleOptionSelect,
\* and only while the question is unchecked or the mode is EXAM (where every
\* option can be selected in any state); on a checked question of a practice
\* mode the selection stays as it is until the runner advances.
C6_SelectOnlyWhileUnchecked ==
  /\ [](HasSession /\ (~isChecked \/ isExamMode)
          => \A idx \in 0..(currentQuestion.options - 1) :
               ENABLED (handleOptionSelect(idx) /\ selectedOption' = idx))
  /\ [][(HasSession /\ HasSession')
          => /\ (isChecked /\ ~isExamMode)
                  => (selectedOption' = selectedOption \/ lastOp' = "handleNext")
             /\ selectedOption' \notin {selectedOption, null}
                  => (lastOp' = "handleOptionSelect" /\ (~isChecked \/ isExamMode))]_vars

\* handleOptionSelect ran on a checked question of a practice session
C6_Witness ==
  /\ HasSession
  /\ ~isExamMode
  /\ isChecked
  /\ lastOp = "handleOptionSelect"

\* the bank question an identifier names
BankQuestion(id) == CHOOSE q \in Range(state.questions) : q.id = id

\* C7: the attempt a check records names the question current at the check,
\* stores the option selected then, and is correct exactly when that option
\* is the question's correctAnswerIndex; every attempt on the list agrees
\* with the question it names.
C7_AttemptMatchesQuestion ==
  [][/\ HasSession
          => \A a \in Range(attempts) :
               a.isCorrect <=> (a.userAnswerIndex = BankQuestion(a.questionId).correctAnswerIndex)
     /\ (HasSession /\ HasSession' /\ attempts' # attempts)
          => LET a == attempts'[Len(attempts')] IN
             /\ lastOp' = "handleCheck"
             /\ a.questionId = currentQuestion.id
             /\ a.userAnswerIndex = selectedOption
             /\ a.isCorrect <=> (selectedOption = currentQuestion.correctAnswerIndex)]_vars

\* a correct and an incorrect attempt are on the list
C7_Witness ==
  /\ HasSession
  /\ lastOp = "handleCheck"
  /\ Len(attempts) = 2
  /\ attempts[1].isCorrect
  /\ ~attempts[2].isCorrect

\* C8: advancing past the last question completes the session and hands over
\* the attempt list, which holds exactly one attempt for every question of
\* the session; advancing from another question moves the index forward by
\* one and clears the selection, the checked flag and the elapsed time.
C8_AdvanceCompletesOrResets ==
  [][(HasSession /\ isChecked /\ lastOp' = "handleNext")
       => IF ~HasSession'
            THEN /\ isLastQuestion
                 /\ state'.attempts = state.attempts \o attempts
                 /\ \A q \in Range(session.questions) :
                      Cardinality({i \in 1..Len(attempts) : attempts[i].questionId = q.id}) = 1
            ELSE /\ ~isLastQuestion
                 /\ currentIndex' = currentIndex + 1
                 /\ selectedOption' = null
                 /\ ~isChecked'
                 /\ sinceStart' = 0]_vars

\* the step hands a WHY_WRONG request for the current question to
\* getTutorResponse (which answers at once when no key is configured)
IssuesWhyWrong ==
  \/ /\ tutorCall' # tutorCall
     /\ tutorCall' # <<>>
     /\ tutorCall'[1].mode = "WHY_WRONG"
     /\ tutorCall'[1].questionId = currentQuestion.id
  \/ /\ ~hasApiKey
     /\ aiMessage' = <<[mode |-> "WHY_WRONG", questionId |-> currentQuestion.id,
                        text |-> "unavailable"]>>

\* C9: a check issues a WHY_WRONG request exactly when it records an
\* incorrect answer in a session that is not in EXAM mode, whatever tutor
\* request was made before.
C9_WrongAnswerAsksWhyWrong ==
  [][(HasSession /\ HasSession' /\ lastOp' = "handleCheck" /\ ~isChecked /\ isChecked')
       => (IssuesWhyWrong
             <=> (~isExamMode /\ selectedOption # currentQuestion.correctAnswerIndex))]_vars

\* C10: while a tutor call is in flight, selecting, checking and advancing
\* are enabled as they are without it, and the return of the call changes
\* neither the index, the selection, the checked flag nor the attempts.
C10_TutorCallDoesNotBlock ==
  /\ []((HasSession /\ tutorCall # <<>>)
          => /\ \A idx \in 0..(currentQuestion.options - 1) : ENABLED handleOptionSelect(idx)
             /\ (ENABLED handleCheck) <=> ~isChecked
             /\ (ENABLED handleNext) <=> isChecked)
  /\ [][lastOp' = "TutorReturn"
          => UNCHANGED <<currentIndex, selectedOption, isChecked, attempts, sinceStart,
                         timeLeft, timer, appVars>>]_vars

\* the runner advanced while a tutor call was in flight
C10_Witness ==
  /\ HasSession
  /\ tutorCall # <<>>
  /\ isAiLoading
  /\ lastOp = "handleNext"
  /\ currentIndex = 1

\* the runner operations and the changes of the bank
RunnerOps == {"handleOptionSelect", "handleCheck", "handleNext", "TimerTick", "TimerIdleRun"}

BankOps == {"handleFiles", "onDelete"}

\* C11: no runner operation and no change of the bank changes the question
\* list of the session that is active before and after it; a check changes
\* only the attempts, the checked flag and the tutor panel, and an advance
\* from a non-final question only the index and the per-question sub-state.
C11_SessionQuestionsFixed ==
  [][/\ (HasSession /\ HasSession' /\ lastOp' \in RunnerOps \cup BankOps)
          => activeSession' = activeSession
     /\ (HasSession /\ lastOp' \in RunnerOps \ {"TimerTick", "TimerIdleRun"} /\ HasSession')
          => state' = state
     /\ (HasSession /\ lastOp' = "handleCheck")
          => UNCHANGED <<currentIndex, selectedOption, sinceStart, timeLeft, timer>>
     /\ (HasSession /\ lastOp' = "handleNext" /\ ~isLastQuestion)
          => /\ currentIndex' = currentIndex + 1
             /\ UNCHANGED <<attempts, timeLeft, timer>>]_vars

\* questions were ingested while a STANDARD session built from a bank of one
\* question was on a checked question
C11_Witness ==
  /\ HasSession
  /\ lastOp = "handleFiles"
  /\ session.mode = "STANDARD"
  /\ Len(session.questions) = 1
  /\ Len(state.questions) = 2
  /\ isChecked

\* C12: an exit discards the session, whatever its state; the selection of
\* the question in progress goes nowhere, and the attempts checked before
\* the exit are appended to the attempt history.
C12_ExitKeepsCheckedAttempts ==
  [][(HasSession /\ lastOp' = "onExit")
       => /\ ~HasSession'
          /\ state'.attempts = state.attempts \o attempts]_vars

\* C13: while a session is active no other session is installed in its
\* place: the active session changes only by being set (from none), or by
\* being cleared on completion, on exit or when the render throws.
C13_OneSessionAtATime ==
  [][HasSession => (activeSession' = activeSession \/ ~HasSession')]_vars

BuildOps == {"handleStartPractice", "handleStartCustomPractice", "CurateReturn", "CurateFails"}

\* C14: every active session has at least one question; a build on an empty
\* bank installs no session and starts no curation, in every mode; and a
\* curation whose identifiers name no bank question installs no session
\* and ends the build.
C14_NoEmptySession ==
  /\ [](HasSession => Len(session.questions) >= 1)
  /\ [][/\ (Len(state.questions) = 0 /\ lastOp' \in BuildOps /\ curation = <<>>)
             => (~HasSession' /\ ~isCurating' /\ curation' = <<>>)
        /\ \A selectedIds \in AiSelections :
             (/\ curation # <<>>
              /\ \A q \in Range(curation[1].questions) : q.id \notin Range(selectedIds)
              /\ CurateReturn(selectedIds))
               => (activeSession' = activeSession /\ ~isCurating')]_vars

\* the curation call returned identifiers none of which is in a bank of
\* MaxBuildBank questions: no session, and the build is over
C14_Witness ==
  /\ lastOp = "CurateReturn"
  /\ ~HasSession
  /\ ~isCurating
  /\ Len(state.questions) = MaxBuildBank

\* the question has at least one incorrect attempt in the history
PreviouslyMissed(q) == \E a \in Range(state.attempts) : a.questionId = q.id /\ ~a.isCorrect

\* the place of a question in the bank
BankPosition(q) == CHOOSE i \in 1..Len(state.questions) : state.questions[i] = q

C16_BuildSizeAndLimit ==
  [][(lastOp' = "handleStartPractice" /\ Len(state.questions) > 0)
       => /\ HasSession'
          /\ LET s == activeSession'[1] IN
             /\ s.mode \in {"STANDARD", "ADAPTIVE", "EXAM"}
             /\ Len(s.questions) = Min(10, Len(state.questions))
             /\ \A i, j \in 1..Len(s.questions) :
                  i # j => (s.questions[i] # s.questions[j]
                            /\ s.questions[i].id # s.questions[j].id)
             /\ Range(s.questions) \subseteq Range(state.questions)
             /\ s.currentQuestionIndex = 0
             /\ s.attempts = <<>>
             /\ currentIndex' = 0
             /\ attempts' = <<>>
             /\ IF s.mode = "EXAM"
                  THEN s.timeLimit = 7200 /\ timeLeft' = 7200
                  ELSE s.timeLimit = undefined /\ timeLeft' = undefined]_vars

\* an EXAM session of 10 questions out of a bank of 12, in another order
\* than the bank's
C16_Witness ==
  /\ lastOp = "handleStartPractice"
  /\ HasSession
  /\ session.mode = "EXAM"
  /\ Len(state.questions) = 12
  /\ Len(session.questions) = 10
  /\ session.questions[1] # state.questions[1]
  /\ timeLeft = 7200

\* the question counts a CUSTOM build can be asked for (input min="1")
FallbackCounts == 1..(MaxBuildBank + 1)

\* C17: for every bank a build can start from, every subject and count, the
\* fallback of curatePracticeSet (no key, or the call failed or returned
\* nothing usable) returns exactly
\* min(count, size of the subject's candidate pool) pairwise distinct
\* identifiers of that pool, the whole bank for subject "All"; the session
\* built after a failed call has that many questions, all of the pool.
C17_FallbackSelection ==
  /\ [](~HasSession => \A subject \in CustomSubjects, count \in FallbackCounts :
          LET pool == Candidates(state.questions, subject) IN
          /\ subject = "All" => pool = state.questions
          /\ \A p \in Shuffles(pool) :
               LET ids == FallbackIds(p, count) IN
               /\ Len(ids) = Min(count, Len(pool))
               /\ \A i, j \in 1..Len(ids) : i # j => ids[i] # ids[j]
               /\ Range(ids) \subseteq {q.id : q \in Range(pool)})
  /\ [][(lastOp' = "CurateFails" /\ curation # <<>> /\ ~HasSession)
          => /\ HasSession'
             /\ Len(activeSession'[1].questions)
                  = Min(curation[1].count, Len(curation[1].candidates))
             /\ Range(activeSession'[1].questions) \subseteq Range(curation[1].candidates)]_vars

\* the curation call failed on a bank of MaxBuildBank questions and the
\* fallback chose two of them
C17_Witness ==
  /\ lastOp = "CurateFails"
  /\ HasSession
  /\ session.mode = "CUSTOM"
  /\ Len(session.questions) = 2
  /\ Len(state.questions) = MaxBuildBank

\* C18: the three coverage counts of the Dashboard sum to the number of
\* questions in the bank, in every state ingestions, sessions and deletions
\* lead to.
C18_CoverageSumsToBank ==
  pieData.Mastered + pieData.NeedsReview + pieData.Unseen = Len(state.questions)

\* C19: the attempt history only grows at its end: every step keeps the
\* existing entries as they are and in place; it grows only when a session
\* completes, by that session's attempts in the order of their checks (a
\* check puts its attempt last in the session's list); exit, ingestion and
\* deletion leave the history as it is.
C19_HistoryAppendOnly ==
  [][/\ Len(state'.attempts) >= Len(state.attempts)
     /\ SubSeq(state'.attempts, 1, Len(state.attempts)) = state.attempts
     /\ state'.attempts # state.attempts
          => (HasSession /\ ~HasSession' /\ state'.attempts = state.attempts \o attempts)
     /\ lastOp' \in {"onExit", "handleFiles", "onDelete"} => state'.attempts = state.attempts
     /\ (HasSession /\ HasSession' /\ attempts' # attempts)
          => LET a == attempts'[Len(attempts')] IN
             SubSeq(attempts', 1, Len(attempts') - 1)
               = SelectSeq(attempts, LAMBDA x : x.questionId # a.questionId)]_vars

\* a second session completed: its two attempts follow the attempt of the
\* first session
C19_Witness ==
  /\ ~HasSession
  /\ lastOp = "handleNext"
  /\ Len(state.attempts) = 3
  /\ state.attempts[2].questionId # state.attempts[3].questionId

\* C20: every question of the bank, and so every question a session serves,
\* has 0 <= correctAnswerIndex < options.length, whatever the extraction
\* call returned.
C20_AnswerIndexInRange ==
  /\ \A q \in Range(state.questions) :
       0 <= q.correctAnswerIndex /\ q.correctAnswerIndex < q.options
  /\ HasSession => \A q \in Range(session.questions) :
       0 <= q.correctAnswerIndex /\ q.correctAnswerIndex < q.options

\* C21: the question bank changes only by ingestion (the new questions are
\* added, every existing question is kept, in its relative order) and by
\* explicit deletion (exactly the questions with the given identifier are
\* removed); every other step, the session builds of all modes and the CUSTOM
\* curation call included, leaves the bank's contents and order unchanged.
C21_BankChangesOnlyByIngestAndDelete ==
  [][/\ lastOp' \notin BankOps => state'.questions = state.questions
     /\ lastOp' = "handleFiles" =>
          /\ Len(state'.questions) >= Len(state.questions)
          /\ SubSeq(state'.questions, Len(state'.questions) - Len(state.questions) + 1,
                    Len(state'.questions)) = state.questions
     /\ lastOp' = "onDelete" =>
          \E id \in {q.id : q \in Range(state.questions)} :
            state'.questions = SelectSeq(state.questions, LAMBDA q : q.id # id)]_vars

\* C22: loadActiveSession returns the stored snapshot {session, attempts,
\* currentIndex, savedAt} unchanged when it was saved at most 24 hours ago;
\* when the snapshot is older it returns nothing and removes the snapshot
\* from storage, so that a second load also returns nothing; a missing or
\* unparsable snapshot yields nothing, and the call always returns.
C22_LoadReturnsFreshSnapshot ==
  [][/\ lastOp' = "loadActiveSession" =>
          IF savedSession # <<>> /\ savedSession[1].json = "value"
            THEN LET snapshot == savedSession[1].value IN
                 IF clock - snapshot.savedAt <= MaxAgeHours * MsPerHour
                   THEN loaded' = <<snapshot>> /\ savedSession' = savedSession
                   ELSE loaded' = <<>> /\ savedSession' = <<>>
            ELSE loaded' = <<>>
     /\ lastOp' = "saveActiveSession" =>
          \E s \in SnapshotSessions, atts \in SnapshotAttempts, idx \in 0..(BankSize - 1) :
            parse(savedSession'[1]) = [session |-> s, attempts |-> atts, currentIndex |-> idx,
                                       savedAt |-> clock]
     /\ savedSession = <<>> => ENABLED (loadActiveSession /\ loaded' = <<>>)
     /\ ENABLED loadActiveSession]_vars

\* a snapshot saved exactly 24 hours ago was loaded and is still stored
C22_Witness ==
  /\ lastOp = "loadActiveSession"
  /\ loaded # <<>>
  /\ clock - loaded[1].savedAt = MaxAgeHours * MsPerHour
  /\ savedSession # <<>>

\* C23: after every mutation of the in-memory app state (questions added,
\* question deleted, attempts appended, document logged) the app-state
\* storage item is overwritten with the full current state: between two
\* handlers, when no write is pending, the state read back from storage
\* equals the state in memory.
C23_StorageMirrorsState == loadState = state

UploadOps == {"extractTextReturns", "parseReturns", "parseRejects"}

\* C24: the files of one batch are processed strictly one after another in
\* list order: the loop moves from file i to the extraction of file i + 1
\* only in the step that settles file i, which is either the step in which
\* the AI call for file i returned questions and they were merged into the
\* bank (with one document-log entry for the file), or a step in which file i
\* failed (empty or short text, AI error, zero questions) and neither a
\* question nor a document-log entry was added; after a failure the loop
\* still goes on to the remaining files.
C24_FilesOneAfterAnother ==
  [][isProcessing =>
       /\ upload' # <<>>
       /\ LET b == upload[1]
              c == upload'[1]
              added == Len(state'.questions) - Len(state.questions)
          IN /\ c.total = b.total
             /\ c.i \in {b.i, b.i + 1}
             /\ lastOp' = "parseRejects" => c.errorCount = b.errorCount + 1
             /\ c.errorCount \in {b.errorCount, b.errorCount + 1}
             /\ c.errorCount = b.errorCount + 1 =>
                  /\ lastOp' \in UploadOps
                  /\ state' = state
                  /\ c.processedCount = b.processedCount
                  /\ c.i = b.i + 1
             /\ c.i = b.i + 1 =>
                  /\ lastOp' \in UploadOps
                  /\ c.phase = (IF c.i < c.total THEN "extractTextFromFile" ELSE "done")
                  /\ \/ c.errorCount = b.errorCount + 1
                     \/ /\ b.phase = "parseMCQsFromText"
                        /\ c.processedCount = b.processedCount + 1
                        /\ c.errorCount = b.errorCount
                        /\ added >= 1
                        /\ SubSeq(state'.questions, added + 1, Len(state'.questions))
                             = state.questions
                        /\ state'.documents
                             = Append(state.documents, [name |-> b.i + 1, questionCount |-> added])
             /\ c.i = b.i =>
                  /\ added <= 0
                  /\ state'.documents = state.documents
                  /\ c.phase # b.phase =>
                       b.phase = "extractTextFromFile" /\ c.phase = "parseMCQsFromText"]_vars

\* a batch of two files is over: the first file failed, the second was
\* processed and is the only one in the document log
C24_Witness ==
  /\ upload # <<>>
  /\ upload[1].phase = "done"
  /\ upload[1].total = 2
  /\ upload[1].errorCount = 1
  /\ upload[1].processedCount = 1
  /\ upload[1].lastError[1].name = 1
  /\ state.documents = <<[name |-> 2, questionCount |-> 1]>>
  /\ Len(state.questions) = 1

\* the attempts of the history at positions from..to that were correct
correctInChunk(from, to) ==
  Cardinality({i \in from..to : state.attempts[i].isCorrect})

\* C25: the accuracy trend cuts the attempt history, in recording order,
\* into consecutive chunks of 5 (only the last chunk may be shorter) and has
\* exactly ceil(n / 5) points for n attempts; the point of a chunk is the
\* 1-based position of the chunk's last attempt together with
\* round(100 * correctInChunk / size of the chunk).
C25_TrendChunks ==
  LET n == Len(state.attempts) IN
  /\ Len(trendData) = (n + 4) \div 5
  /\ \A j \in 1..Len(trendData) :
       LET first == 5 * (j - 1) + 1
           last == Min(5 * j, n)
           size == last - first + 1
           correct == correctInChunk(first, last)
           \* 100 * correct - accuracy * size: the distance to the exact quotient, times size
           off == 100 * correct - trendData[j].accuracy * size
       IN /\ trendData[j].attempt = last
          /\ size \in 1..5
          /\ j < Len(trendData) => size = 5
          /\ trendData[j].accuracy \in 0..100
          /\ -size <= 2 * off /\ 2 * off < size

\* a session has just been added to the history, which now has two full
\* chunks and one attempt more; a chunk is neither all right nor all wrong
C25_Witness ==
  /\ lastOp = "handleNext"
  /\ Len(state.attempts) = 11
  /\ Len(trendData) = 3
  /\ trendData[3].attempt = 11
  /\ trendData[1].accuracy = 60
  /\ trendData[2].accuracy \notin {0, 100}

\* C26: a session with a time limit comes to its end whatever the user does:
\* with the interval's callbacks running, the remaining time reaches zero
\* after finitely many ticks and the session is completed.
C26_TimedSessionEnds == (HasSession /\ session.timeLimit # undefined) ~> ~HasSession

\* C27: the tutor message shown in the panel belongs to the current question:
\* a response that arrives after the user has moved on is not shown for the
\* other question.  Read on sessions the menu started, which are never put
\* in place of a running one.
C27_TutorMessageOfCurrentQuestion ==
  [][lastOp' = "TutorReturn" /\ session'.mode # "CUSTOM"
       => aiMessage'[1].questionId = currentQuestion'.id]_vars

\* C28: in every mode, when the runner leaves a question by handleNext, the
\* attempt list holds an attempt for that question with the option selected
\* at that moment.  Read on sessions the menu started.
C28_AttemptHoldsSelectionAtAdvance ==
  [][lastOp' = "handleNext" /\ session.mode # "CUSTOM"
       => \E i \in 1..Len(attempts) :
            /\ attempts[i].questionId = currentQuestion.id
            /\ attempts[i].userAnswerIndex = selectedOption]_vars

\* C29: a CUSTOM session holds at most as many questions as were asked for,
\* and no question twice, whatever identifiers the curation call returns.
C29_CustomSizeWithinCount ==
  [][lastOp' = "CurateReturn" /\ curation # <<>> /\ HasSession' /\ activeSession' # activeSession
       => /\ Len(session'.questions) <= curation[1].count
          /\ \A i, j \in 1..Len(session'.questions) :
               i # j => session'.questions[i].id # session'.questions[j].id]_vars

\* C30: in a CUSTOM build with a subject other than "All" every question of
\* the session has that subject, whatever identifiers the curation call
\* returns.
C30_CustomSubjectOnly ==
  [][lastOp' = "CurateReturn" /\ curation # <<>> /\ curation[1].subject # "All"
       /\ HasSession' /\ activeSession' # activeSession
       => \A i \in 1..Len(session'.questions) :
            session'.questions[i].subject = curation[1].subject]_vars

====
